---- MODULE Spec2Model ----
(***************************************************************************)
(* A model of maxboettinger/subtitle-to-pdf.                               *)
(*                                                                         *)
(*   src/subtitle_to_pdf.py : fetch_subtitles, parse_ebu_tt, parse_vtt,    *)
(*                            create_pdf, process_csv                      *)
(*   src/src/main.py        : parse_subtitle_xml                           *)
(*                                                                         *)
(* A Python str is a sequence of one-character strings, so that strip,     *)
(* startswith, "in", isdigit, split, join, splitlines and lower are        *)
(* computed on the characters as the interpreter computes them.  A value   *)
(* that may be None is an option record (None / Some(v)).                  *)
(***************************************************************************)
EXTENDS Integers, Sequences, FiniteSets

VARIABLES
    vttText,    \* parse_vtt: the argument vtt_content
    vttPc,      \* parse_vtt: "start" before the call, "done" after it
    vttOut,     \* parse_vtt: the value returned (None before the call)
    xmlDoc,     \* the XML document handed to the two TTML parsers
    ebuPc,      \* parse_ebu_tt: "start" before the call, "done" after it
    ebuOut,     \* parse_ebu_tt: how the call ended
    xmlPc,      \* parse_subtitle_xml: "start" before the call, "done" after
    xmlOut,     \* parse_subtitle_xml: how the call ended
    csvPc,      \* process_csv: where the call stands
    rowsRead,   \* process_csv: the rows the reader has yielded so far
    outcomes,   \* process_csv: what became of each row, in order
    last        \* process_csv: the row last read and what was done with it

vttVars == <<vttText, vttPc, vttOut>>

ttmlVars == <<xmlDoc, ebuPc, ebuOut, xmlPc, xmlOut>>

csvVars == <<csvPc, rowsRead, outcomes, last>>

vars == <<vttVars, ttmlVars, csvVars>>

-----------------------------------------------------------------------------
(* Bounds of the model.                                                    *)

MaxLines == 5

MaxParas == 2

MaxRows == 3

-----------------------------------------------------------------------------
(* Python values.                                                          *)

None == [isNone |-> TRUE, val |-> <<>>]

Some(v) == [isNone |-> FALSE, val |-> v]

\* How a call ends: it returns a value, or an exception leaves it
Returned(v) == [raised |-> FALSE, exc |-> "", ret |-> v]

Raised(e) == [raised |-> TRUE, exc |-> e, ret |-> None]

NotCalled == [raised |-> FALSE, exc |-> "not called", ret |-> None]

\* The characters str.strip() removes, among those the model's texts hold.
Whitespace == {" ", "\t", "\n", "\r"}

Digits == {"0", "1", "2", "3", "4", "5", "6", "7", "8", "9"}

Arrow == <<"-", "-", ">">>

NL == <<"\n">>

WEBVTT == <<"W", "E", "B", "V", "T", "T">>

RECURSIVE LStrip(_)
LStrip(s) ==
    IF s # <<>> /\ Head(s) \in Whitespace THEN LStrip(Tail(s)) ELSE s

RECURSIVE RStrip(_)
RStrip(s) ==
    IF s # <<>> /\ s[Len(s)] \in Whitespace
    THEN RStrip(SubSeq(s, 1, Len(s) - 1))
    ELSE s

\* str.strip()
Strip(s) == RStrip(LStrip(s))

\* str.startswith(prefix)
StartsWith(s, prefix) ==
    Len(s) >= Len(prefix) /\ SubSeq(s, 1, Len(prefix)) = prefix

\* str.endswith(suffix)
EndsWith(s, suffix) ==
    Len(s) >= Len(suffix)
    /\ SubSeq(s, Len(s) - Len(suffix) + 1, Len(s)) = suffix

\* str.find(sub), 1-based; 0 when sub does not occur in s
Find(s, sub) ==
    LET hits == {i \in 1..(Len(s) - Len(sub) + 1) :
                    SubSeq(s, i, i + Len(sub) - 1) = sub}
    IN IF hits = {} THEN 0 ELSE CHOOSE i \in hits : \A j \in hits : i <= j

\* sub in s
Contains(s, sub) == Find(s, sub) # 0

\* str.isdigit(): at least one character, and every character a digit
IsDigit(s) == s # <<>> /\ \A i \in 1..Len(s) : s[i] \in Digits

\* str.split(sep): the list of the parts between the occurrences of sep
RECURSIVE Split(_, _)
Split(s, sep) ==
    LET k == Find(s, sep) IN
    IF k = 0 THEN <<s>>
    ELSE <<SubSeq(s, 1, k - 1)>> \o Split(SubSeq(s, k + Len(sep), Len(s)), sep)

\* sep.join(parts)
RECURSIVE Join(_, _)
Join(parts, sep) ==
    IF parts = <<>> THEN <<>>
    ELSE IF Len(parts) = 1 THEN parts[1]
    ELSE parts[1] \o sep \o Join(Tail(parts), sep)

\* str.splitlines(): the lines of text, without their line boundaries
\* ("\n", "\r" and "\r\n"); a boundary at the very end opens no further line.
RECURSIVE SplitLinesFrom(_, _)
SplitLinesFrom(text, cur) ==
    IF text = <<>> THEN (IF cur = <<>> THEN <<>> ELSE <<cur>>)
    ELSE IF Head(text) = "\r" /\ Len(text) >= 2 /\ text[2] = "\n"
         THEN <<cur>> \o SplitLinesFrom(Tail(Tail(text)), <<>>)
    ELSE IF Head(text) \in {"\n", "\r"}
         THEN <<cur>> \o SplitLinesFrom(Tail(text), <<>>)
    ELSE SplitLinesFrom(Tail(text), Append(cur, Head(text)))

SplitLines(text) == SplitLinesFrom(text, <<>>)

\* [t.strip() for t in xs]
StripAll(xs) == [i \in 1..Len(xs) |-> Strip(xs[i])]

\* f"[{start_time}]: {text_content}"
FormatCue(start_time, text_content) ==
    <<"[">> \o start_time \o <<"]", ":", " ">> \o text_content

-----------------------------------------------------------------------------
(* parse_vtt                                                               *)

\* lines = vtt_content.splitlines(), without lines[0] when it is the header
HeaderStripped(lines) ==
    IF lines # <<>> /\ StartsWith(Strip(lines[1]), WEBVTT)
    THEN Tail(lines)
    ELSE lines

HasArrow(item) == Contains(item, Arrow)

\* time_line after "for item in block": the last item holding "-->",
\* stripped; None when no item holds it
RECURSIVE TimeLineOf(_, _)
TimeLineOf(block, time_line) ==
    IF block = <<>> THEN time_line
    ELSE TimeLineOf(Tail(block),
                    IF HasArrow(Head(block)) THEN Some(Strip(Head(block)))
                    ELSE time_line)

NotHasArrow(item) == ~HasArrow(item)

NotIsDigit(t) == ~IsDigit(t)

\* text_lines when the index numbers are kept
TextLinesOf_KeepIndex(block) ==
    StripAll(SelectSeq(block, NotHasArrow))

\* text_lines after the loop and the index filter
TextLinesOf(block) ==
    SelectSeq(StripAll(SelectSeq(block, NotHasArrow)), NotIsDigit)

\* The cues a block adds to subtitles (the body of "if block:" inside the loop)
ProcessBlock(block) ==
    LET time_line == TimeLineOf(block, None)
        text_lines == TextLinesOf(block)
    IN IF ~time_line.isNone /\ time_line.val # <<>>
       THEN LET parts == Split(time_line.val, Arrow)
                start_time == Strip(parts[1])
                text_content == Strip(Join(text_lines, <<" ">>))
            IN IF text_content # <<>>
               THEN <<FormatCue(start_time, text_content)>>
               ELSE <<>>
       ELSE <<>>

\* The block still open after the loop is forgotten
ProcessRemainingBlock_Lost(block) == <<>>

\* The same statements, repeated after the loop for the block still open
ProcessRemainingBlock(block) ==
    LET time_line == TimeLineOf(block, None)
        text_lines == TextLinesOf(block)
    IN IF ~time_line.isNone /\ time_line.val # <<>>
       THEN LET parts == Split(time_line.val, Arrow)
                start_time == Strip(parts[1])
                text_content == Strip(Join(text_lines, <<" ">>))
            IN IF text_content # <<>>
               THEN <<FormatCue(start_time, text_content)>>
               ELSE <<>>
       ELSE <<>>

\* "for line in lines": block and subtitles after the lines from i on
RECURSIVE VttLoop(_, _, _, _)
VttLoop(lines, i, block, subtitles) ==
    IF i > Len(lines) THEN [block |-> block, subtitles |-> subtitles]
    ELSE IF Strip(lines[i]) = <<>>
         THEN IF block # <<>>
              THEN VttLoop(lines, i + 1, <<>>, subtitles \o ProcessBlock(block))
              ELSE VttLoop(lines, i + 1, block, subtitles)
         ELSE VttLoop(lines, i + 1, Append(block, lines[i]), subtitles)

\* parse_vtt when an empty list is returned as None
parse_vtt_NoneWhenEmpty(vtt_content) ==
    LET lines == HeaderStripped(SplitLines(vtt_content))
        st == VttLoop(lines, 1, <<>>, <<>>)
        subtitles == IF st.block # <<>>
                     THEN st.subtitles \o ProcessRemainingBlock(st.block)
                     ELSE st.subtitles
    IN IF subtitles = <<>> THEN None ELSE Some(subtitles)

\* parse_vtt(vtt_content).  No statement of the try body raises on a str, so
\* the except branch (return None) is not taken.
parse_vtt(vtt_content) ==
    LET lines == HeaderStripped(SplitLines(vtt_content))
        st == VttLoop(lines, 1, <<>>, <<>>)
    IN Some(IF st.block # <<>>
            THEN st.subtitles \o ProcessRemainingBlock(st.block)
            ELSE st.subtitles)

-----------------------------------------------------------------------------
(* xml.etree.ElementTree.  An element is a record of its tag (in Clark     *)
(* notation, "{uri}local", the uri and the local name one item each), its  *)
(* begin attribute (None when absent), its text, its tail, and its         *)
(* children.  A text or tail of None is the empty string: the code only    *)
(* tests them for truth.  A document is [wf, root]: whether the text is    *)
(* well-formed XML, and the elements read from it (for a text that is not  *)
(* well-formed, the ones before the error).                                *)

TtmlNs == "http://www.w3.org/ns/ttml"

Tag(ns, local) == IF ns = "" THEN <<local>> ELSE <<"{", ns, "}", local>>

Elem(tag, begin, text, tail, children) ==
    [tag |-> tag, begin |-> begin, text |-> text, tail |-> tail,
     children |-> children]

\* Element.itertext(): the non-empty text of the element, then for each
\* child its itertext() and its non-empty tail
RECURSIVE IterText(_)
RECURSIVE IterTextOfChildren(_)
IterText(e) ==
    (IF e.text # <<>> THEN <<e.text>> ELSE <<>>) \o IterTextOfChildren(e.children)

IterTextOfChildren(cs) ==
    IF cs = <<>> THEN <<>>
    ELSE IterText(Head(cs))
         \o (IF Head(cs).tail # <<>> THEN <<Head(cs).tail>> ELSE <<>>)
         \o IterTextOfChildren(Tail(cs))

\* The descendants of an element in document order (".//")
RECURSIVE Descendants(_)
RECURSIVE DescendantsOfChildren(_)
Descendants(e) == DescendantsOfChildren(e.children)

DescendantsOfChildren(cs) ==
    IF cs = <<>> THEN <<>>
    ELSE <<Head(cs)>> \o Descendants(Head(cs)) \o DescendantsOfChildren(Tail(cs))

\* root.findall(".//" + tag)
FindAll(root, tag) ==
    LET HasTag(e) == e.tag = tag IN SelectSeq(Descendants(root), HasTag)

-----------------------------------------------------------------------------
(* parse_ebu_tt                                                            *)

DefaultBegin == <<"0", "0", ":", "0", "0", ":", "0", "0", ".", "0", "0", "0">>

\* The text of a paragraph when it is not stripped
EbuTextContent_NoStrip(p) == Join(IterText(p), <<" ">>)

\* " ".join(p.itertext()).strip()
EbuTextContent(p) == Strip(Join(IterText(p), <<" ">>))

\* "for p in root.findall(...)": subtitles after the paragraphs ps
RECURSIVE EbuLoop(_, _)
EbuLoop(ps, subtitles) ==
    IF ps = <<>> THEN subtitles
    ELSE LET p == Head(ps)
             start_time == IF p.begin.isNone THEN DefaultBegin ELSE p.begin.val
             text_content == EbuTextContent(p)
         IN EbuLoop(Tail(ps),
                    IF text_content # <<>>
                    THEN Append(subtitles, FormatCue(start_time, text_content))
                    ELSE subtitles)

\* The paragraphs parse_ebu_tt visits: root.findall(".//tt:p", namespace)
EbuParagraphs(root) == FindAll(root, Tag(TtmlNs, "p"))

\* parse_ebu_tt when the cues read before the error are returned
parse_ebu_tt_Partial(xml_content) ==
    Returned(Some(EbuLoop(EbuParagraphs(xml_content.root), <<>>)))

\* parse_ebu_tt(xml_content): ET.fromstring raises ParseError on a text that
\* is not well-formed; the except branch logs it and returns None.
parse_ebu_tt(xml_content) ==
    IF ~xml_content.wf THEN Returned(None)
    ELSE Returned(Some(EbuLoop(EbuParagraphs(xml_content.root), <<>>)))

-----------------------------------------------------------------------------
(* parse_subtitle_xml                                                      *)

\* The namespace when it is the TTML one whatever the root says
NamespaceOf_Fixed(root) == <<"{", TtmlNs, "}">>

\* namespace = root.tag.split('}')[0] + '}'
NamespaceOf(root) == Split(root.tag, <<"}">>)[1] \o <<"}">>

\* What a child appends when a br is not looked at
ChildPart_NoBr(element, namespace) ==
    IF element.tag = namespace \o <<"span">> THEN <<element.text>> ELSE <<>>

\* What one child of a paragraph appends to text_parts
ChildPart(element, namespace) ==
    IF element.tag = namespace \o <<"span">> THEN <<element.text>>
    ELSE IF element.tag = namespace \o <<"br">> THEN <<NL>>
    ELSE <<>>

\* "for element in p": text_parts after the children cs
RECURSIVE TextParts(_, _, _)
TextParts(cs, namespace, text_parts) ==
    IF cs = <<>> THEN text_parts
    ELSE TextParts(Tail(cs), namespace,
                   text_parts \o ChildPart(Head(cs), namespace))

IsTruthy(t) == t # <<>>

\* " ".join(filter(None, text_parts))
XmlText(p, namespace) ==
    Join(SelectSeq(TextParts(p.children, namespace, <<>>), IsTruthy), <<" ">>)

\* "for p in root.findall(...)": subtitles after the paragraphs ps
RECURSIVE XmlLoop(_, _, _)
XmlLoop(ps, namespace, subtitles) ==
    IF ps = <<>> THEN subtitles
    ELSE XmlLoop(Tail(ps), namespace,
                 Append(subtitles,
                        <<Head(ps).begin, XmlText(Head(ps), namespace)>>))

\* The paragraphs parse_subtitle_xml visits
XmlParagraphs(root) == FindAll(root, NamespaceOf(root) \o <<"p">>)

\* parse_subtitle_xml(xml_file): ET.parse raises ParseError on a file that
\* is not well-formed, and nothing in the function catches it.
parse_subtitle_xml(xml_file) ==
    IF ~xml_file.wf THEN Raised("ParseError")
    ELSE Returned(Some(XmlLoop(XmlParagraphs(xml_file.root),
                               NamespaceOf(xml_file.root), <<>>)))

-----------------------------------------------------------------------------
(* process_csv.  A fetched text is [chars, wf, root]: its characters, as   *)
(* the str operations of the dispatch step and of parse_vtt read them, and *)
(* what ET.fromstring makes of it.                                         *)

\* str.lower(), on the letters the model's URLs hold
LowerChar(c) ==
    CASE c = "V" -> "v"
      [] c = "T" -> "t"
      [] c = "S" -> "s"
      [] OTHER -> c

Lower(s) == [i \in 1..Len(s) |-> LowerChar(s[i])]

DotVtt == <<".", "v", "t", "t">>

\* The test when the URL is compared as it is
IsVttSource_CaseSensitive(url, content) ==
    EndsWith(url, DotVtt) \/ StartsWith(Strip(content.chars), WEBVTT)

\* url.lower().endswith(".vtt") or content.strip().startswith("WEBVTT")
IsVttSource(url, content) ==
    EndsWith(Lower(url), DotVtt) \/ StartsWith(Strip(content.chars), WEBVTT)

\* The dispatch step: the parser that runs, and the value it returns
Dispatch(url, content) ==
    IF IsVttSource(url, content)
    THEN [parser |-> "vtt", subtitles |-> parse_vtt(content.chars)]
    ELSE [parser |-> "ebu", subtitles |-> parse_ebu_tt(content).ret]

\* create_pdf(title, subtitles, output_folder): an exception raised while
\* the document is built (by ensure_font when the font cannot be fetched,
\* by a cell or by the output file) is caught and logged by the outer try,
\* and the call returns.
create_pdf(fontOk, renderOk) ==
    IF ~fontOk THEN "render failed: font"
    ELSE IF ~renderOk THEN "render failed"
    ELSE "pdf written"

\* fetch_subtitles(url): the text of the response, or None when the request
\* raises a RequestException (which is caught and logged)
fetch_subtitles(requestOk, response) ==
    IF requestOk THEN Some(response) ELSE None

\* One pass of "for row in reader" for a row of two fields, given what
\* fetch_subtitles returns
ProcessFetched(url, fetched, fontOk, renderOk) ==
    IF ~fetched.isNone /\ fetched.val.chars # <<>>
    THEN LET d == Dispatch(url, fetched.val)
         IN [reached |-> TRUE, url |-> url, content |-> fetched,
             parser |-> d.parser, subtitles |-> d.subtitles,
             outcome |-> IF ~d.subtitles.isNone /\ d.subtitles.val # <<>>
                         THEN create_pdf(fontOk, renderOk)
                         ELSE "no subtitles"]
    ELSE [reached |-> FALSE, url |-> url, content |-> fetched,
          parser |-> "none", subtitles |-> None, outcome |-> "no content"]

NoRow ==
    [reached |-> FALSE, url |-> <<>>, content |-> None, parser |-> "none",
     subtitles |-> None, outcome |-> "no row"]

-----------------------------------------------------------------------------
(* The inputs of parse_vtt: up to MaxLines lines joined by "\n" (a text    *)
(* whose last line is empty ends in a newline), and the example text.      *)

LBlank == <<>>
LSpaces == <<" ">>
LHeader == WEBVTT
LIndex == <<"1", "2">>
LTime == <<" ", "0", "1", " ", "-", "-", ">", " ", "0", "2">>
LTextA == <<" ", "H", "i", " ">>
LTextB == <<"y", "o">>

LineSet == {LBlank, LSpaces, LHeader, LIndex, LTime, LTextA, LTextB}

LineSeqs == UNION {[1..n -> LineSet] : n \in 0..MaxLines}

\* "1\n00:00:01.000 --> 00:00:03.000\nHello world\n"
ExampleVtt ==
    <<"1", "\n", "0", "0", ":", "0", "0", ":", "0", "1", ".", "0", "0", "0",
      " ", "-", "-", ">", " ", "0", "0", ":", "0", "0", ":", "0", "3", ".",
      "0", "0", "0", "\n", "H", "e", "l", "l", "o", " ", "w", "o", "r", "l",
      "d", "\n">>

ExampleTimestamp == <<"0", "0", ":", "0", "0", ":", "0", "1", ".", "0", "0", "0">>

ExampleText == <<"H", "e", "l", "l", "o", " ", "w", "o", "r", "l", "d">>

VttTexts ==
    {Join(ls, NL) : ls \in LineSeqs} \cup {ExampleVtt}

-----------------------------------------------------------------------------
(* The inputs of the TTML parsers: a tt root in one of three namespaces    *)
(* (the TTML one, an older TTML one, none) over body and div, and in div   *)
(* up to MaxParas paragraphs, each in one of the two namespaces.           *)

OldTtmlNs == "http://www.w3.org/2006/10/ttaf1"

Span(ns, text, tail) == Elem(Tag(ns, "span"), None, text, tail, <<>>)

Br(ns) == Elem(Tag(ns, "br"), None, <<>>, <<>>, <<>>)

ExampleBegin == <<"0", "0", ":", "0", "0", ":", "0", "2", ".", "5", "0", "0">>

LineOne == <<"L", "i", "n", "e", " ", "o", "n", "e">>

LineTwo == <<"L", "i", "n", "e", " ", "t", "w", "o">>

\* <p begin="00:00:02.500"><span>Line one</span><br/><span>Line two</span></p>
PExample(ns) ==
    Elem(Tag(ns, "p"), Some(ExampleBegin), <<>>, <<>>,
         <<Span(ns, LineOne, <<>>), Br(ns), Span(ns, LineTwo, <<>>)>>)

\* <p begin="03">Hi</p>
PPlain(ns) == Elem(Tag(ns, "p"), Some(<<"0", "3">>), <<"H", "i">>, <<>>, <<>>)

\* <p/>
PEmpty(ns) == Elem(Tag(ns, "p"), None, <<>>, <<>>, <<>>)

\* <p begin="04"> <span/></p>
PBlank(ns) ==
    Elem(Tag(ns, "p"), Some(<<"0", "4">>), <<" ">>, <<>>, <<Span(ns, <<>>, <<>>)>>)

\* <p>a<span>b</span>c<metadata>d</metadata></p>
PMixed(ns) ==
    Elem(Tag(ns, "p"), None, <<"a">>, <<>>,
         <<Span(ns, <<"b">>, <<"c">>),
           Elem(Tag(ns, "metadata"), None, <<"d">>, <<>>, <<>>)>>)

ParaNs == {TtmlNs, OldTtmlNs}

Paras ==
    UNION {{PExample(ns), PPlain(ns), PEmpty(ns), PBlank(ns), PMixed(ns)} :
           ns \in ParaNs}

ParaSeqs == UNION {[1..n -> Paras] : n \in 0..MaxParas}

RootNs == {TtmlNs, OldTtmlNs, ""}

Root(ns, paras) ==
    Elem(Tag(ns, "tt"), None, <<>>, <<>>,
         <<Elem(Tag(ns, "body"), None, <<>>, <<>>,
                <<Elem(Tag(ns, "div"), None, <<>>, <<>>, paras)>>)>>)

XmlChars == <<"<", "t", "t">>

Docs ==
    {[chars |-> XmlChars, wf |-> wf, root |-> Root(ns, paras)] :
        wf \in BOOLEAN, ns \in RootNs, paras \in ParaSeqs}

-----------------------------------------------------------------------------
(* The inputs of process_csv: rows of zero to three fields, and the texts  *)
(* a request for the URL of a row may bring.                               *)

Title == <<"T">>

Urls ==
    {<<"s", ".", "v", "t", "t">>, <<"S", ".", "V", "T", "T">>,
     <<"s", ".", "x", "m", "l">>, <<"s", ".", "v", "t", "t", "?", "x">>}

Rows ==
    {<<>>, <<Title>>} \cup {<<Title, u>> : u \in Urls}
    \cup {<<Title, <<"s", ".", "v", "t", "t">>, <<"x">>>>}

VttBody == LTime \o NL \o LTextB

Contents ==
    {[chars |-> c, wf |-> FALSE, root |-> Root(TtmlNs, <<>>)] :
        c \in {<<>>, VttBody, WEBVTT \o NL \o NL \o VttBody,
               <<" ">> \o NL \o WEBVTT \o NL \o NL \o VttBody,
               WEBVTT \o NL, XmlChars}}
    \cup {[chars |-> XmlChars, wf |-> TRUE, root |-> Root(TtmlNs, ps)] :
        ps \in {<<>>, <<PExample(TtmlNs)>>, <<PEmpty(TtmlNs)>>}}

-----------------------------------------------------------------------------
(* The three specifications.  Each runs one part of the program and leaves *)
(* the variables of the other parts as they are.                           *)

VttIdle == vttText = <<>> /\ vttPc = "idle" /\ vttOut = None

TtmlIdle ==
    /\ xmlDoc = [chars |-> <<>>, wf |-> FALSE, root |-> Root("", <<>>)]
    /\ ebuPc = "idle" /\ ebuOut = NotCalled
    /\ xmlPc = "idle" /\ xmlOut = NotCalled

CsvIdle == csvPc = "idle" /\ rowsRead = 0 /\ outcomes = <<>> /\ last = NoRow

(* parse_vtt on a text *)

VttInit ==
    /\ vttText \in VttTexts
    /\ vttPc = "start"
    /\ vttOut = None
    /\ TtmlIdle /\ CsvIdle

ParseVtt ==
    /\ vttPc = "start"
    /\ vttOut' = parse_vtt(vttText)
    /\ vttPc' = "done"
    /\ UNCHANGED <<vttText, ttmlVars, csvVars>>

VttNext == ParseVtt

SpecVtt == VttInit /\ [][VttNext]_vars

(* parse_ebu_tt and parse_subtitle_xml on a document *)

TtmlInit ==
    /\ xmlDoc \in Docs
    /\ ebuPc = "start" /\ ebuOut = NotCalled
    /\ xmlPc = "start" /\ xmlOut = NotCalled
    /\ VttIdle /\ CsvIdle

ParseEbuTt ==
    /\ ebuPc = "start"
    /\ ebuOut' = parse_ebu_tt(xmlDoc)
    /\ ebuPc' = "done"
    /\ UNCHANGED <<xmlDoc, xmlPc, xmlOut, vttVars, csvVars>>

ParseSubtitleXml ==
    /\ xmlPc = "start"
    /\ xmlOut' = parse_subtitle_xml(xmlDoc)
    /\ xmlPc' = "done"
    /\ UNCHANGED <<xmlDoc, ebuPc, ebuOut, vttVars, csvVars>>

TtmlNext == ParseEbuTt \/ ParseSubtitleXml

SpecTtml == TtmlInit /\ [][TtmlNext]_vars

(* process_csv on a batch list *)

Init ==
    /\ csvPc = "start"
    /\ rowsRead = 0
    /\ outcomes = <<>>
    /\ last = NoRow
    /\ VttIdle /\ TtmlIdle

\* os.path.exists(csv_filename) is false: log and return
CsvNotFound ==
    /\ csvPc = "start"
    /\ csvPc' = "returned: no file"
    /\ UNCHANGED <<rowsRead, outcomes, last, vttVars, ttmlVars>>

\* The file has no line at all: next(reader) raises StopIteration
CsvNoHeader ==
    /\ csvPc = "start"
    /\ csvPc' = "raised: StopIteration"
    /\ UNCHANGED <<rowsRead, outcomes, last, vttVars, ttmlVars>>

\* The output folder is made, the file opened and its header row skipped
CsvOpen ==
    /\ csvPc = "start"
    /\ csvPc' = "rows"
    /\ UNCHANGED <<rowsRead, outcomes, last, vttVars, ttmlVars>>

\* One pass of "for row in reader"
ProcessRow ==
    /\ csvPc = "rows"
    /\ rowsRead < MaxRows
    /\ \E row \in Rows, requestOk \in BOOLEAN, response \in Contents,
          fontOk \in BOOLEAN, renderOk \in BOOLEAN :
          /\ rowsRead' = rowsRead + 1
          /\ IF Len(row) < 2
             THEN /\ last' = [NoRow EXCEPT !.outcome = "invalid row"]
                  /\ outcomes' = Append(outcomes, "invalid row")
                  /\ csvPc' = "rows"
             ELSE IF Len(row) # 2
             THEN \* title, url = row
                  /\ last' = [NoRow EXCEPT !.outcome = "ValueError"]
                  /\ outcomes' = Append(outcomes, "ValueError")
                  /\ csvPc' = "raised: ValueError"
             ELSE /\ last' = ProcessFetched(row[2],
                                          fetch_subtitles(requestOk, response),
                                          fontOk, renderOk)
                  /\ outcomes' = Append(outcomes, last'.outcome)
                  /\ csvPc' = "rows"
    /\ UNCHANGED <<vttVars, ttmlVars>>

\* The reader has no further row: the loop and process_csv end
CsvEnd ==
    /\ csvPc = "rows"
    /\ csvPc' = "returned"
    /\ UNCHANGED <<rowsRead, outcomes, last, vttVars, ttmlVars>>

Next == CsvNotFound \/ CsvNoHeader \/ CsvOpen \/ ProcessRow \/ CsvEnd

Spec == Init /\ [][Next]_vars

-----------------------------------------------------------------------------
(* What the claims about parse_vtt speak of: the blocks of a list of       *)
(* lines, and the timing line and the surviving text lines of a block.     *)

\* A line with nothing but whitespace on it
IsBlankLine(l) == \A i \in 1..Len(l) : l[i] \in Whitespace

\* The last line of the maximal run of non-blank lines that starts at line i
BlockEnd(lines, i) ==
    CHOOSE j \in i..Len(lines) :
        /\ \A k \in i..j : ~IsBlankLine(lines[k])
        /\ j = Len(lines) \/ IsBlankLine(lines[j + 1])

\* The maximal runs of non-blank lines, in the order of the text
RECURSIVE BlocksFrom(_, _)
BlocksFrom(lines, i) ==
    IF i > Len(lines) THEN <<>>
    ELSE IF IsBlankLine(lines[i]) THEN BlocksFrom(lines, i + 1)
    ELSE <<SubSeq(lines, i, BlockEnd(lines, i))>>
         \o BlocksFrom(lines, BlockEnd(lines, i) + 1)

Blocks(lines) == BlocksFrom(lines, 1)

TimingLines(b) == SelectSeq(b, HasArrow)

IsTextLine(l) == ~HasArrow(l) /\ ~IsDigit(Strip(l))

\* The lines of a block that are neither its timing line nor an index number
SurvivingText(b) == SelectSeq(b, IsTextLine)

\* Those lines, each trimmed, joined in order by one space
JoinedText(b) ==
    Join([i \in 1..Len(SurvivingText(b)) |-> Strip(SurvivingText(b)[i])], <<" ">>)

\* The trimmed text before the arrow of a timing line
BeforeArrow(l) == Strip(SubSeq(l, 1, Find(l, Arrow) - 1))

\* A block that cannot become a cue: no timing line, or no text line left
IsDroppedBlock(b) == TimingLines(b) = <<>> \/ SurvivingText(b) = <<>>

IsKeptBlock(b) == ~IsDroppedBlock(b)

\* The cues a block is to give.  A block with several timing lines is no
\* case of the claims: its cues are taken as parse_vtt computes them.
ExpectedCues(b) ==
    IF Len(TimingLines(b)) = 1
    THEN IF SurvivingText(b) # <<>>
         THEN <<FormatCue(BeforeArrow(TimingLines(b)[1]), JoinedText(b))>>
         ELSE <<>>
    ELSE IF TimingLines(b) = <<>> THEN <<>>
    ELSE ProcessBlock(b)

RECURSIVE ExpectedOfBlocks(_)
ExpectedOfBlocks(bs) ==
    IF bs = <<>> THEN <<>>
    ELSE ExpectedCues(Head(bs)) \o ExpectedOfBlocks(Tail(bs))

\* The lines parse_vtt segments into blocks
VttLines == HeaderStripped(SplitLines(vttText))

\* The lines of the text as they are, the header line included
RawLines == SplitLines(vttText)

\* The lines left when the first non-blank line is discarded if it begins
\* with WEBVTT
RECURSIVE WithoutHeaderLine(_)
WithoutHeaderLine(lines) ==
    IF lines = <<>> THEN <<>>
    ELSE IF IsBlankLine(Head(lines))
         THEN <<Head(lines)>> \o WithoutHeaderLine(Tail(lines))
    ELSE IF StartsWith(Strip(Head(lines)), WEBVTT) THEN Tail(lines)
    ELSE lines

CueSep == <<"]", ":", " ">>

-----------------------------------------------------------------------------
\* No block of the text has both a timing line and a text line
NoCueInput ==
    LET bs == Blocks(RawLines) IN \A i \in 1..Len(bs) : IsDroppedBlock(bs[i])

(* C1: for every input text parse_vtt returns a sequence of cues, never    *)
(* the failure value None; a text none of whose blocks has both a timing   *)
(* line and a text line (the empty text included) gives the empty          *)
(* sequence.                                                               *)

C1_VttNeverFails ==
    vttPc = "done" =>
        /\ ~vttOut.isNone
        /\ NoCueInput => vttOut.val = <<>>

\* A malformed text (a timing line with no text, and stray lines) was parsed
C1_Witness ==
    /\ vttPc = "done"
    /\ NoCueInput
    /\ \E i \in 1..Len(RawLines) : HasArrow(RawLines[i])
    /\ \E i \in 1..Len(RawLines) : IsTextLine(RawLines[i]) /\ ~IsBlankLine(RawLines[i])
    /\ vttOut = Some(<<>>)

\* The blocks that have a timing line and a text line, in order
KeptBlocks == SelectSeq(Blocks(VttLines), IsKeptBlock)

(* C5: a block without a timing line gives no cue, and so does a block     *)
(* whose lines other than the timing line are all index numbers (or that   *)
(* has no other line): the cues are those of the remaining blocks, one     *)
(* each and in order, and each ends in the non-empty text of its block.    *)

C5_DroppedBlocksGiveNoCue ==
    vttPc = "done" =>
        LET kept == KeptBlocks
            cues == vttOut.val
        IN /\ ~vttOut.isNone
           /\ Len(cues) = Len(kept)
           /\ \A i \in 1..Len(kept) :
                 LET text == JoinedText(kept[i])
                 IN /\ text # <<>>
                    /\ i <= Len(cues)
                    /\ EndsWith(cues[i], CueSep \o text)
                    /\ ~EndsWith(cues[i], CueSep)

\* A block with a timing line and an index number only, before a block that
\* gives a cue
C5_Witness ==
    /\ vttPc = "done"
    /\ Len(Blocks(VttLines)) = 2
    /\ LET b == Blocks(VttLines)[1]
       IN Len(b) = 2 /\ TimingLines(b) # <<>> /\ SurvivingText(b) = <<>>
    /\ vttOut = Some(<<FormatCue(<<"0", "1">>, <<"y", "o">>)>>)

(* C6: parse_vtt emits, in block order, one cue for each block with        *)
(* exactly one timing line and at least one surviving text line, the last  *)
(* block included when no blank line follows it; the cue's timestamp is    *)
(* the trimmed text before the arrow and its text the surviving lines,     *)
(* trimmed and joined by one space.  The example block gives               *)
(* ("00:00:01.000", "Hello world"), and appending a blank line to a text   *)
(* does not change the result.                                             *)

C6_CuesInBlockOrder ==
    vttPc = "done" =>
        /\ vttOut = Some(ExpectedOfBlocks(Blocks(VttLines)))
        /\ vttText = ExampleVtt =>
              vttOut = Some(<<FormatCue(ExampleTimestamp, ExampleText)>>)
        /\ parse_vtt(vttText \o NL) = vttOut
        /\ parse_vtt(vttText \o NL \o NL) = vttOut

\* Two cues from two blocks of one timing line each, the second block being
\* the last lines of a text that ends without a newline
C6_Witness ==
    /\ vttPc = "done"
    /\ Len(vttOut.val) = 2
    /\ vttOut.val[1] # vttOut.val[2]
    /\ \A i \in 1..Len(Blocks(VttLines)) : Len(TimingLines(Blocks(VttLines)[i])) = 1
    /\ vttText # <<>> /\ vttText[Len(vttText)] # "\n"

(* C10: parse_vtt discards the first non-blank line of the text when it    *)
(* begins with WEBVTT, also when blank lines precede it, and otherwise     *)
(* loses no line: the cues are those of the blocks of the remaining lines. *)

C10_HeaderDiscarded ==
    vttPc = "done" =>
        vttOut = Some(ExpectedOfBlocks(Blocks(WithoutHeaderLine(RawLines))))

-----------------------------------------------------------------------------
(* What the claims about the TTML parsers speak of.                        *)

LocalName(e) == e.tag[Len(e.tag)]

NsOf(e) == IF Len(e.tag) = 4 /\ e.tag[1] = "{" THEN e.tag[2] ELSE ""

IsParagraphUnder(e, ns) == LocalName(e) = "p" /\ NsOf(e) = ns

\* The descendant p elements under namespace ns, in document order
ParagraphsUnder(root, ns) ==
    LET IsP(e) == IsParagraphUnder(e, ns) IN SelectSeq(Descendants(root), IsP)

NonEmptyAfterTrim(t) == \E i \in 1..Len(t) : t[i] \notin Whitespace

\* The text of a paragraph as parse_ebu_tt resolves it: all the text in
\* it, joined by single spaces
AllText(p) == Join(IterText(p), <<" ">>)

HasText(p) == NonEmptyAfterTrim(AllText(p))

BeginOr(p, default) == IF p.begin.isNone THEN default ELSE p.begin.val

\* One cue for each of the paragraphs ps with non-empty text, in order
EbuCuesOfNonEmpty(ps) ==
    LET kept == SelectSeq(ps, HasText)
    IN [i \in 1..Len(kept) |->
           FormatCue(BeginOr(kept[i], DefaultBegin), Strip(AllText(kept[i])))]

\* The text of a paragraph as parse_subtitle_xml resolves it: for each span
\* child its text, for each br child the marker "\n", the empty ones left
\* out, joined by single spaces
MarkedText(p, ns) ==
    LET part(c) == IF c.tag = Tag(ns, "span") THEN c.text
                   ELSE IF c.tag = Tag(ns, "br") THEN NL
                   ELSE <<>>
        parts == [i \in 1..Len(p.children) |-> part(p.children[i])]
    IN Join(SelectSeq(parts, IsTruthy), <<" ">>)

OnlySpanAndBr(p, ns) ==
    \A i \in 1..Len(p.children) :
        p.children[i].tag \in {Tag(ns, "span"), Tag(ns, "br")}

RootNsOfDoc == NsOf(xmlDoc.root)

EbuDone == ebuPc = "done" /\ xmlDoc.wf

XmlDone == xmlPc = "done" /\ xmlDoc.wf

\* t holds a, then the marker "\n", then b
SeparatedByMarker(t, a, b) ==
    \E i, j, k \in 1..Len(t) :
        /\ i + Len(a) <= j /\ j < k /\ k + Len(b) - 1 <= Len(t)
        /\ SubSeq(t, i, i + Len(a) - 1) = a
        /\ t[j] = "\n"
        /\ SubSeq(t, k, k + Len(b) - 1) = b

ExampleDoc == xmlDoc.root = Root(TtmlNs, <<PExample(TtmlNs)>>)

-----------------------------------------------------------------------------
(* C2 as stated: on a text that is not well-formed XML the TTML parser     *)
(* fails with a ParseError that reaches its caller, and returns no cue     *)
(* sequence.                                                               *)

C2_ParseErrorSurfaced ==
    ~xmlDoc.wf =>
        /\ ebuPc = "done" => ebuOut = Raised("ParseError")
        /\ xmlPc = "done" => xmlOut = Raised("ParseError")

(* C2 amended: on a text that is not well-formed XML parse_subtitle_xml    *)
(* fails with a ParseError that reaches its caller, while parse_ebu_tt     *)
(* catches the ParseError and returns None to its caller; neither returns  *)
(* a cue sequence, whatever was read before the error.                     *)

C2_MalformedGivesNoCues ==
    ~xmlDoc.wf =>
        /\ ebuPc = "done" => ebuOut = Returned(None)
        /\ xmlPc = "done" => xmlOut = Raised("ParseError")

\* Both parsers ran on a malformed text that holds a paragraph with text
C2_Witness ==
    /\ ~xmlDoc.wf
    /\ ebuPc = "done" /\ xmlPc = "done"
    /\ Len(ParagraphsUnder(xmlDoc.root, TtmlNs)) = 2
    /\ HasText(ParagraphsUnder(xmlDoc.root, TtmlNs)[1])
    /\ ebuOut = Returned(None)
    /\ xmlOut = Raised("ParseError")

XmlCueHasText(cue) == NonEmptyAfterTrim(cue[2])

(* C7 as stated: on a well-formed text the TTML parser returns exactly the *)
(* paragraphs whose resolved text is non-empty after trimming, one cue     *)
(* each, in document order; every cue has non-empty text.                  *)

C7_OnlyNonEmptyParagraphs ==
    /\ EbuDone =>
          ebuOut = Returned(Some(EbuCuesOfNonEmpty(EbuParagraphs(xmlDoc.root))))
    /\ XmlDone =>
          /\ ~xmlOut.raised /\ ~xmlOut.ret.isNone
          /\ \A i \in 1..Len(xmlOut.ret.val) : XmlCueHasText(xmlOut.ret.val[i])

(* C7 amended: on a well-formed text parse_ebu_tt returns exactly the      *)
(* paragraphs it selects whose text is non-empty after trimming, one cue   *)
(* each, in document order, so each of its cues has non-empty text;        *)
(* parse_subtitle_xml returns one cue for every paragraph it selects, in   *)
(* document order, also when the paragraph's text is empty.                *)

C7_CuesOfParagraphs ==
    /\ EbuDone =>
          /\ ebuOut = Returned(Some(EbuCuesOfNonEmpty(EbuParagraphs(xmlDoc.root))))
          /\ \A i \in 1..Len(ebuOut.ret.val) :
                ~EndsWith(ebuOut.ret.val[i], CueSep)
    /\ XmlDone =>
          LET ps == XmlParagraphs(xmlDoc.root)
          IN xmlOut = Returned(Some([i \in 1..Len(ps) |->
                                      <<ps[i].begin, MarkedText(ps[i], RootNsOfDoc)>>]))

\* Two paragraphs under the TTML namespace, the first without text, the
\* second with: parse_ebu_tt gives one cue, parse_subtitle_xml two
C7_Witness ==
    /\ EbuDone /\ XmlDone
    /\ RootNsOfDoc = TtmlNs
    /\ Len(ParagraphsUnder(xmlDoc.root, TtmlNs)) = 2
    /\ ~HasText(ParagraphsUnder(xmlDoc.root, TtmlNs)[1])
    /\ HasText(ParagraphsUnder(xmlDoc.root, TtmlNs)[2])
    /\ Len(ebuOut.ret.val) = 1
    /\ Len(xmlOut.ret.val) = 2
    /\ xmlOut.ret.val[1][2] = <<>>

(* C8 as stated: for a paragraph whose children are span and br elements   *)
(* the cue text is the span texts in child order with a line-break marker  *)
(* at each br; the example paragraph gives one cue with timestamp          *)
(* "00:00:02.500" whose text holds "Line one" and "Line two" separated by  *)
(* a line-break marker.                                                    *)

C8_LineBreakMarker ==
    ExampleDoc =>
        /\ EbuDone =>
              /\ Len(ebuOut.ret.val) = 1
              /\ StartsWith(ebuOut.ret.val[1], <<"[">> \o ExampleBegin \o CueSep)
              /\ SeparatedByMarker(ebuOut.ret.val[1], LineOne, LineTwo)
        /\ XmlDone =>
              /\ Len(xmlOut.ret.val) = 1
              /\ xmlOut.ret.val[1][1] = Some(ExampleBegin)
              /\ SeparatedByMarker(xmlOut.ret.val[1][2], LineOne, LineTwo)

(* C8 amended: for a paragraph whose children are span and br elements,    *)
(* parse_subtitle_xml gives the span texts and, at each br, the marker     *)
(* "\n", in child order, all joined by single spaces (the example gives    *)
(* timestamp "00:00:02.500" and text "Line one \n Line two");              *)
(* parse_ebu_tt puts no marker for a br: it gives the texts joined by      *)
(* single spaces (the example gives "[00:00:02.500]: Line one Line two").  *)

C8_SpanAndBrText ==
    /\ XmlDone =>
          LET ps == ParagraphsUnder(xmlDoc.root, RootNsOfDoc) IN
          /\ RootNsOfDoc # "" => Len(xmlOut.ret.val) = Len(ps)
          /\ \A i \in 1..Len(ps) :
                (RootNsOfDoc # "" /\ OnlySpanAndBr(ps[i], RootNsOfDoc)) =>
                    xmlOut.ret.val[i] = <<ps[i].begin, MarkedText(ps[i], RootNsOfDoc)>>
          /\ ExampleDoc =>
                xmlOut.ret.val =
                    <<<<Some(ExampleBegin), LineOne \o <<" ", "\n", " ">> \o LineTwo>>>>
    /\ (EbuDone /\ ExampleDoc) =>
          ebuOut.ret.val =
              <<FormatCue(ExampleBegin, LineOne \o <<" ">> \o LineTwo)>>

\* Both parsers ran on the example paragraph
C8_Witness ==
    /\ EbuDone /\ XmlDone /\ ExampleDoc
    /\ SeparatedByMarker(xmlOut.ret.val[1][2], LineOne, LineTwo)
    /\ ~Contains(ebuOut.ret.val[1], NL)

(* C9 as stated: the TTML parser takes the governing namespace from the    *)
(* tag of the root element and selects every descendant p under that       *)
(* namespace, whichever TTML namespace the document declares, and no p     *)
(* under another namespace.                                                *)

C9_RootNamespaceGoverns ==
    RootNsOfDoc # "" =>
        /\ EbuDone =>
              ebuOut.ret =
                  Some(EbuLoop(ParagraphsUnder(xmlDoc.root, RootNsOfDoc), <<>>))
        /\ XmlDone =>
              xmlOut.ret =
                  Some(XmlLoop(ParagraphsUnder(xmlDoc.root, RootNsOfDoc),
                               <<"{", RootNsOfDoc, "}">>, <<>>))

(* C9 amended: parse_subtitle_xml takes the governing namespace from the   *)
(* tag of the root element and selects every descendant p under that       *)
(* namespace, whichever namespace the document declares, and no p under    *)
(* another; parse_ebu_tt does not read the root's namespace: it selects    *)
(* the descendant p elements under http://www.w3.org/ns/ttml, whichever    *)
(* namespace the root declares.                                            *)

C9_NamespacePerParser ==
    /\ (XmlDone /\ RootNsOfDoc # "") =>
          xmlOut =
              Returned(Some(XmlLoop(ParagraphsUnder(xmlDoc.root, RootNsOfDoc),
                                    <<"{", RootNsOfDoc, "}">>, <<>>)))
    /\ EbuDone =>
          ebuOut =
              Returned(Some(EbuLoop(ParagraphsUnder(xmlDoc.root, TtmlNs), <<>>)))

\* A root under the older namespace over a paragraph under it and one under
\* the TTML namespace: each parser selects one of the two
C9_Witness ==
    /\ EbuDone /\ XmlDone
    /\ RootNsOfDoc = OldTtmlNs
    /\ Len(Descendants(xmlDoc.root)) >= 4
    /\ Descendants(xmlDoc.root)[3] = PPlain(OldTtmlNs)
    /\ Descendants(xmlDoc.root)[4] = PMixed(TtmlNs)
    /\ xmlOut.ret.val = <<<<Some(<<"0", "3">>), <<>>>>>>
    /\ ebuOut.ret.val = <<FormatCue(DefaultBegin, <<"a", " ", "b", " ", "c", " ", "d">>)>>

-----------------------------------------------------------------------------
EndsInDotVttAnyCase(url) ==
    LET n == Len(url) IN
    /\ n >= 4
    /\ url[n - 3] = "."
    /\ url[n - 2] \in {"v", "V"}
    /\ url[n - 1] \in {"t", "T"}
    /\ url[n] \in {"t", "T"}

BeginsWithWebvtt(chars) ==
    \E k \in 0..Len(chars) :
        /\ \A i \in 1..k : chars[i] \in Whitespace
        /\ Len(chars) >= k + 6
        /\ SubSeq(chars, k + 1, k + 6) = WEBVTT

(* C4: for a URL and a fetched text that reach the dispatch step (the      *)
(* text is not empty), process_csv runs parse_vtt if the URL ends in       *)
(* ".vtt", whatever the case of its letters, or if the text begins with    *)
(* WEBVTT after leading whitespace, and parse_ebu_tt in every other case.  *)

C4_Dispatch ==
    last.reached =>
        LET content == last.content.val IN
        IF EndsInDotVttAnyCase(last.url) \/ BeginsWithWebvtt(content.chars)
        THEN last.parser = "vtt" /\ last.subtitles = parse_vtt(content.chars)
        ELSE last.parser = "ebu" /\ last.subtitles = parse_ebu_tt(content).ret

\* An upper-case ".VTT" URL whose text is well-formed XML went to parse_vtt
C4_Witness ==
    /\ last.reached
    /\ last.url = <<"S", ".", "V", "T", "T">>
    /\ last.content.val.wf
    /\ ~BeginsWithWebvtt(last.content.val.chars)
    /\ last.parser = "vtt"
    /\ last.subtitles = Some(<<>>)

RowOutcomes ==
    {"invalid row", "no content", "no subtitles", "pdf written",
     "render failed", "render failed: font"}

(* C3: once the batch list is open no row is fatal to process_csv:         *)
(* whatever a row holds and whichever of its steps fails, that row alone   *)
(* is skipped, the rows after it are processed in order, and process_csv   *)
(* returns normally after the last row.                                    *)

C3_NoRowIsFatal ==
    csvPc \notin {"idle", "start", "returned: no file", "raised: StopIteration"} =>
        /\ csvPc \in {"rows", "returned"}
        /\ Len(outcomes) = rowsRead
        /\ \A i \in 1..Len(outcomes) : outcomes[i] \in RowOutcomes

====
